---- MODULE Spec2Model ----
(***************************************************************************)
(* Model of gobs/args: the Scanner (NextToken), the token drivers          *)
(* (getTokens behind GetTokens / GetTokensN / GetOptionTokens, GetArgs,    *)
(* GetArgsN, GetOptions) and the option splitter ParseArgs.                *)
(*                                                                         *)
(* A rune is its code point (an integer), a string is a sequence of runes. *)
(* The scanner's input is a string (NewScannerString), so the only read    *)
(* error is io.EOF; errors are the strings "nil" and "EOF".                *)
(***************************************************************************)
EXTENDS Integers, Sequences, FiniteSets, TLC

(***************************************************************************)
(* Bounds of the model.                                                    *)
(***************************************************************************)
MaxLen == 4        \* longest input line, in runes
MaxWordLen == 5    \* longest line of words
MaxQuotedLen == 5  \* longest line of quoted text
MaxN   == 2        \* largest positive token budget n
MaxNeg == 1        \* budgets run from -MaxNeg to MaxN
MaxBracketLen == 5 \* longest line of bracketed text
MaxOptionLen == 7  \* longest line of options
MaxIntLen == 6     \* longest line of options with integer values
MaxFairLen == 3    \* longest line of the runs that are followed to their end

(***************************************************************************)
(* Constants of the package.                                               *)
(***************************************************************************)
ESCAPE_CHAR  == 92                              \* '\\'
OPTION_CHAR  == 45                              \* '-'
QUOTE_CHARS  == <<96, 39, 34>>                  \* "`'\""
SYMBOL_CHARS == <<124, 62, 60, 35, 123, 40, 91>> \* `|><#{([`
NO_QUOTE     == 65533                           \* unicode.ReplacementChar
BRACKETS     == (123 :> 125) @@ (91 :> 93) @@ (40 :> 41)
EQUALS       == <<61>>                          \* "="
DASH         == <<45>>                          \* "-"
DASHDASH     == <<45, 45>>                      \* "--"

(***************************************************************************)
(* Library functions the code calls, by what they do.                      *)
(***************************************************************************)
\* unicode.IsSpace on the Latin-1 range
IsSpace(c) == c \in {9, 10, 11, 12, 13, 32, 133, 160}

\* strings.ContainsRune
ContainsRune(str, c) == \E k \in DOMAIN str : str[k] = c

\* the runes of str from index from (1-based) to the end
From(str, from) == SubSeq(str, from, Len(str))

\* TrimSpace that trims the left end only
TrimSpace_LeftOnly(str) ==
    LET keep == {k \in DOMAIN str : ~IsSpace(str[k])}
    IN  IF keep = {} THEN <<>>
        ELSE From(str, CHOOSE k \in keep : \A m \in keep : k <= m)

\* strings.TrimSpace: drop leading and trailing white space
TrimSpace(str) ==
    LET keep == {k \in DOMAIN str : ~IsSpace(str[k])}
    IN  IF keep = {} THEN <<>>
        ELSE LET lo == CHOOSE k \in keep : \A m \in keep : k <= m
                 hi == CHOOSE k \in keep : \A m \in keep : k >= m
             IN  SubSeq(str, lo, hi)

\* strings.HasPrefix
HasPrefix(str, prefix) ==
    /\ Len(str) >= Len(prefix)
    /\ SubSeq(str, 1, Len(prefix)) = prefix

\* strings.TrimLeft(str, cutset)
TrimLeft(str, cutset) ==
    LET keep == {k \in DOMAIN str : ~ContainsRune(cutset, str[k])}
    IN  IF keep = {} THEN <<>>
        ELSE From(str, CHOOSE k \in keep : \A m \in keep : k <= m)

\* strings.Contains for a one-rune separator
Contains(str, sep) == ContainsRune(str, sep[1])

\* strings.SplitN(str, sep, 2) for a one-rune separator that occurs in str
SplitN2(str, sep) ==
    LET at == CHOOSE k \in DOMAIN str :
                  /\ str[k] = sep[1]
                  /\ \A m \in 1..(k - 1) : str[m] # sep[1]
    IN  <<SubSeq(str, 1, at - 1), From(str, at + 1)>>

\* the decimal digits '0' .. '9' and the signs '+' and '-'
DIGITS == 48..57
SIGNS == {43, 45}

RECURSIVE DecimalValue(_)
DecimalValue(digits) ==
    IF digits = <<>> THEN 0
    ELSE 10 * DecimalValue(SubSeq(digits, 1, Len(digits) - 1))
             + (digits[Len(digits)] - 48)

\* strconv.Atoi(str) for strings short enough not to overflow an int: an
\* optional sign and one or more decimal digits; anything else is a syntax
\* error, returned together with the number 0
Atoi(str) ==
    LET signed == str # <<>> /\ str[1] \in SIGNS
        digits == IF signed THEN Tail(str) ELSE str
    IN  IF digits # <<>> /\ \A k \in DOMAIN digits : digits[k] \in DIGITS
        THEN [n |-> IF str[1] = 45 THEN 0 - DecimalValue(digits)
                    ELSE DecimalValue(digits),
              err |-> "nil"]
        ELSE [n |-> 0, err |-> "syntax"]

(***************************************************************************)
(* Scanner.NextToken.  Locals is the record of the call's local variables  *)
(* and named results; each operator below is one branch of the loop body,  *)
(* applied to the rune c that ReadRune returned.  "ret" says the branch    *)
(* returns, "all" that it drained the reader (io.Copy).                    *)
(***************************************************************************)
NewLocals ==
    [buf |-> <<>>, first |-> TRUE, escape |-> FALSE, quote |-> NO_QUOTE,
     brackets |-> <<>>, s |-> <<>>, delim |-> 0, err |-> "nil",
     ret |-> FALSE, all |-> FALSE]

\* c == ESCAPE_CHAR && !escape
StartEscape(l) == [l EXCEPT !.escape = TRUE, !.first = FALSE]

\* AddEscaped with the escape flag left set
AddEscaped_KeepsFlag(l, c) == [l EXCEPT !.buf = Append(@, c)]

\* if escape: just add the character
AddEscaped(l, c) == [l EXCEPT !.escape = FALSE, !.buf = Append(@, c)]

\* first && IsSpace(c): skip leading spaces
SkipSpace(l) == l

\* first && c is a quote character: start quoted token
StartQuote(l, c) == [l EXCEPT !.first = FALSE, !.quote = c]

\* StartBrackets that does not record the opening bracket as the delimiter
StartBrackets_NoDelim(l, c) ==
    [l EXCEPT !.first = FALSE,
              !.brackets = Append(@, BRACKETS[c]), !.buf = Append(@, c)]

\* first && c opens a bracket: start a bracketed session
StartBrackets(l, c) ==
    [l EXCEPT !.first = FALSE, !.delim = c,
              !.brackets = Append(@, BRACKETS[c]), !.buf = Append(@, c)]

\* SymbolRest that returns the symbol alone and leaves the rest in the reader
SymbolRest_NoCopy(l, c, tail) ==
    [l EXCEPT !.first = FALSE, !.buf = Append(@, c),
              !.s = Append(l.buf, c), !.ret = TRUE]

\* first && c is a symbol: return all the remaining characters
SymbolRest(l, c, tail) ==
    [l EXCEPT !.first = FALSE, !.buf = Append(@, c) \o tail,
              !.s = Append(l.buf, c) \o tail, !.ret = TRUE, !.all = TRUE]

\* Plain with the test for white space left out
Plain_NoSpaceStop(l, c) ==
    IF c = l.quote
    THEN [l EXCEPT !.quote = NO_QUOTE, !.s = l.buf, !.delim = c, !.ret = TRUE]
    ELSE [l EXCEPT !.buf = Append(@, c)]

\* Plain with any quote character closing a quoted token
Plain_AnyQuoteCloses(l, c) ==
    IF IsSpace(c) /\ l.quote = NO_QUOTE
    THEN [l EXCEPT !.s = l.buf, !.delim = c, !.ret = TRUE]
    ELSE IF c = l.quote \/ (l.quote # NO_QUOTE /\ ContainsRune(QUOTE_CHARS, c))
    THEN [l EXCEPT !.quote = NO_QUOTE, !.s = l.buf, !.delim = c, !.ret = TRUE]
    ELSE [l EXCEPT !.buf = Append(@, c)]

\* Plain with a quote character inside a bare word starting a quoted part
Plain_MidWordQuote(l, c) ==
    IF IsSpace(c) /\ l.quote = NO_QUOTE
    THEN [l EXCEPT !.s = l.buf, !.delim = c, !.ret = TRUE]
    ELSE IF c = l.quote
    THEN [l EXCEPT !.quote = NO_QUOTE, !.s = l.buf, !.delim = c, !.ret = TRUE]
    ELSE IF l.quote = NO_QUOTE /\ ContainsRune(QUOTE_CHARS, c)
    THEN [l EXCEPT !.quote = c]
    ELSE [l EXCEPT !.buf = Append(@, c)]

\* len(brackets) == 0
Plain(l, c) ==
    IF IsSpace(c) /\ l.quote = NO_QUOTE
    THEN [l EXCEPT !.s = l.buf, !.delim = c, !.ret = TRUE]
    ELSE IF c = l.quote
    THEN [l EXCEPT !.quote = NO_QUOTE, !.s = l.buf, !.delim = c, !.ret = TRUE]
    ELSE [l EXCEPT !.buf = Append(@, c)]

\* Bracketed with any closing bracket popping the stack
Bracketed_AnyCloserPops(l, c) ==
    LET a    == [l EXCEPT !.buf = Append(@, c)]
        last == Len(l.brackets)
    IN  IF l.quote = NO_QUOTE
        THEN IF \E o \in DOMAIN BRACKETS : c = BRACKETS[o]
             THEN IF last = 1
                  THEN [a EXCEPT !.brackets = <<>>, !.s = a.buf, !.ret = TRUE]
                  ELSE [a EXCEPT !.brackets = SubSeq(@, 1, last - 1)]
             ELSE IF ContainsRune(QUOTE_CHARS, c)
             THEN [a EXCEPT !.quote = c]
             ELSE IF c \in DOMAIN BRACKETS
             THEN [a EXCEPT !.brackets = Append(@, BRACKETS[c])]
             ELSE a
        ELSE IF c = l.quote
        THEN [a EXCEPT !.quote = NO_QUOTE]
        ELSE a

\* Bracketed that takes no notice of quotes
Bracketed_QuoteBlind(l, c) ==
    LET a    == [l EXCEPT !.buf = Append(@, c)]
        last == Len(l.brackets)
    IN  IF c = l.brackets[last]
        THEN IF last = 1
             THEN [a EXCEPT !.brackets = <<>>, !.s = a.buf, !.ret = TRUE]
             ELSE [a EXCEPT !.brackets = SubSeq(@, 1, last - 1)]
        ELSE IF c \in DOMAIN BRACKETS
        THEN [a EXCEPT !.brackets = Append(@, BRACKETS[c])]
        ELSE a

\* Bracketed that goes on scanning after the last closer is popped
Bracketed_PopNoReturn(l, c) ==
    LET a    == [l EXCEPT !.buf = Append(@, c)]
        last == Len(l.brackets)
    IN  IF l.quote = NO_QUOTE
        THEN IF c = l.brackets[last]
             THEN [a EXCEPT !.brackets = SubSeq(@, 1, last - 1)]
             ELSE IF ContainsRune(QUOTE_CHARS, c)
             THEN [a EXCEPT !.quote = c]
             ELSE IF c \in DOMAIN BRACKETS
             THEN [a EXCEPT !.brackets = Append(@, BRACKETS[c])]
             ELSE a
        ELSE IF c = l.quote
        THEN [a EXCEPT !.quote = NO_QUOTE]
        ELSE a

\* len(brackets) > 0
Bracketed(l, c) ==
    LET a    == [l EXCEPT !.buf = Append(@, c)]
        last == Len(l.brackets)
    IN  IF l.quote = NO_QUOTE
        THEN IF c = l.brackets[last]
             THEN IF last = 1
                  THEN [a EXCEPT !.brackets = <<>>, !.s = a.buf, !.ret = TRUE]
                  ELSE [a EXCEPT !.brackets = SubSeq(@, 1, last - 1)]
             ELSE IF ContainsRune(QUOTE_CHARS, c)
             THEN [a EXCEPT !.quote = c]
             ELSE IF c \in DOMAIN BRACKETS
             THEN [a EXCEPT !.brackets = Append(@, BRACKETS[c])]
             ELSE a
        ELSE IF c = l.quote
        THEN [a EXCEPT !.quote = NO_QUOTE]
        ELSE a

\* the loop body after a successful ReadRune of c; tail is what is left in
\* the reader after c
OnRune(l, c, tail) ==
    IF c = ESCAPE_CHAR /\ ~l.escape THEN StartEscape(l)
    ELSE IF l.escape THEN AddEscaped(l, c)
    ELSE IF l.first /\ IsSpace(c) THEN SkipSpace(l)
    ELSE IF l.first /\ ContainsRune(QUOTE_CHARS, c) THEN StartQuote(l, c)
    ELSE IF l.first /\ c \in DOMAIN BRACKETS THEN StartBrackets(l, c)
    ELSE IF l.first /\ ContainsRune(SYMBOL_CHARS, c) THEN SymbolRest(l, c, tail)
    ELSE LET m == [l EXCEPT !.first = FALSE]
         IN  IF Len(m.brackets) = 0 THEN Plain(m, c) ELSE Bracketed(m, c)

\* OnEOF that returns a token, with no error, from an empty buffer as well
OnEOF_EmptyToken(l) == [l EXCEPT !.s = l.buf, !.ret = TRUE]

\* the loop body when ReadRune returns io.EOF
OnEOF(l) ==
    IF Len(l.buf) > 0
    THEN [l EXCEPT !.s = l.buf, !.ret = TRUE]
    ELSE [l EXCEPT !.err = "EOF", !.ret = TRUE]

\* one iteration of the loop on input str with p runes already consumed
Iterate(l, str, p) ==
    IF p < Len(str) THEN OnRune(l, str[p + 1], From(str, p + 2)) ELSE OnEOF(l)

\* reader offset after that iteration
Advance(l, str, p) ==
    IF p >= Len(str) THEN p
    ELSE IF Iterate(l, str, p).all THEN Len(str) ELSE p + 1

(***************************************************************************)
(* State.                                                                  *)
(*   line, pos       the scanner's input and the number of runes read      *)
(*   max, i, tokens  getTokens: its argument, loop counter and result list *)
(*   pc              control point: "for" (loop head of getTokens), "peek" *)
(*                   (option look-ahead loop), "scan" (inside NextToken),  *)
(*                   "ret" (NextToken returned to getTokens), "done"       *)
(*                   (getTokens returned), "parse" (loop of ParseArgs),    *)
(*                   "parsed" (ParseArgs returned), "got" (GetIntOption    *)
(*                   returned)                                             *)
(*   out             what getTokens returned: tokens, rest, err            *)
(*   start           reader offset at which the current NextToken began    *)
(*   buf .. err      locals and named results of the current NextToken     *)
(*   args, parsed    ParseArgs: the tokens left to look at and its result  *)
(*   name, def, got  GetIntOption: its arguments and what it returned      *)
(***************************************************************************)
VARIABLES line, pos, max, i, tokens, pc, out, start,
          buf, first, escape, quote, brackets, s, delim, err,
          args, parsed, name, def, got

scanVars == <<buf, first, escape, quote, brackets, s, delim, err>>
parseVars == <<args, parsed>>
callVars == <<name, def, got>>
vars == <<line, pos, max, i, tokens, pc, out, start,
          buf, first, escape, quote, brackets, s, delim, err, args, parsed,
          name, def, got>>

\* the runes input lines are made of
Alphabet == {32, 97, 45, 34, 39, 92, 123, 125, 91, 93, 35}

Lines(alphabet, n) == UNION {[1..k -> alphabet] : k \in 0..n}

Locals ==
    [buf |-> buf, first |-> first, escape |-> escape, quote |-> quote,
     brackets |-> brackets, s |-> s, delim |-> delim, err |-> err,
     ret |-> FALSE, all |-> FALSE]

SetLocals(l) ==
    /\ buf' = l.buf
    /\ first' = l.first
    /\ escape' = l.escape
    /\ quote' = l.quote
    /\ brackets' = l.brackets
    /\ s' = l.s
    /\ delim' = l.delim
    /\ err' = l.err

\* NewScannerString(line) followed by scanner.getTokens(max)
Entry(lines, budgets) ==
    /\ line \in lines
    /\ max \in budgets
    /\ pos = 0
    /\ i = 0
    /\ tokens = <<>>
    /\ pc = "for"
    /\ out = [tokens |-> <<>>, rest |-> <<>>, err |-> "nil"]
    /\ start = 0
    /\ buf = NewLocals.buf
    /\ first = NewLocals.first
    /\ escape = NewLocals.escape
    /\ quote = NewLocals.quote
    /\ brackets = NewLocals.brackets
    /\ s = NewLocals.s
    /\ delim = NewLocals.delim
    /\ err = NewLocals.err
    /\ args = <<>>
    /\ parsed = [Options |-> <<>>, Arguments |-> <<>>]
    /\ name = <<>>
    /\ def = 0
    /\ got = 0

Budgets == -MaxNeg..MaxN

Init == Entry(Lines(Alphabet, MaxLen), Budgets)

\* GetOptions(line), and GetArgs(line) on its own or inside ParseArgs(line)
UnboundedBudgets == {-1, 0}

\* lines of words: two kinds of white space, a letter, a symbol, the option
\* character and a quote
WordAlphabet == {32, 9, 97, 35, 45, 34}
InitWords == Entry(Lines(WordAlphabet, MaxWordLen), Budgets)

\* lines of quoted text, and the line of ExampleGetArgs
QuotedAlphabet == {32, 97, 34, 39, 92, 123}
ExampleGetArgsLine ==
    <<111, 110, 101, 32, 116, 119, 111, 32, 116, 104, 114, 101, 101, 32,
      34, 100, 111, 117, 98, 108, 101, 32, 113, 117, 111, 116, 101, 115, 34, 32,
      39, 115, 105, 110, 103, 108, 101, 32, 113, 117, 111, 116, 101, 115, 39, 32,
      97, 114, 103, 92, 32, 119, 105, 116, 104, 92, 32, 115, 112, 97, 99, 101, 115, 32,
      34, 92, 34, 113, 117, 111, 116, 101, 115, 92, 34, 32, 105, 110, 32,
      39, 113, 117, 111, 116, 101, 115, 39, 34, 32,
      39, 34, 113, 117, 111, 116, 101, 115, 34, 32, 105, 110, 32,
      92, 39, 113, 117, 111, 116, 101, 115, 39, 34>>
ExampleGetArgsOutput ==
    <<<<111, 110, 101>>,
      <<116, 119, 111>>,
      <<116, 104, 114, 101, 101>>,
      <<100, 111, 117, 98, 108, 101, 32, 113, 117, 111, 116, 101, 115>>,
      <<115, 105, 110, 103, 108, 101, 32, 113, 117, 111, 116, 101, 115>>,
      <<97, 114, 103, 32, 119, 105, 116, 104, 32, 115, 112, 97, 99, 101, 115>>,
      <<34, 113, 117, 111, 116, 101, 115, 34, 32, 105, 110, 32, 39, 113, 117, 111, 116, 101, 115, 39>>,
      <<34, 113, 117, 111, 116, 101, 115, 34, 32, 105, 110, 32, 39, 113, 117, 111, 116, 101, 115>>>>
\* a bare word with a quote inside it: ab"c d"
MidWordQuoteLine == <<97, 98, 34, 99, 32, 100, 34>>
InitQuoted ==
    Entry(Lines(QuotedAlphabet, MaxQuotedLen)
              \cup {ExampleGetArgsLine, MidWordQuoteLine},
          UnboundedBudgets)

\* lines of bracketed text, the two lines of the bracket property, and a
\* nested group with escaped closers
BracketAlphabet == {32, 97, 34, 92, 123, 125, 91, 93}
BalancedLine == <<123, 97, 58, 91, 49, 44, 50, 93, 44, 98, 58, 40, 51, 44, 52, 41, 125>>
UnbalancedLine == <<123, 120>>
EscapedNestedLine == <<123, 91, 92, 93, 93, 92, 125, 125>>
\* a closer inside quotes inside a group, {"a}"}, and a quote and a closer
\* inside quotes of the other kind, ['"]']
QuotedCloserLine == <<123, 34, 97, 125, 34, 125>>
OtherQuoteLine == <<91, 39, 34, 93, 39, 93>>
InitBrackets ==
    Entry(Lines(BracketAlphabet, MaxBracketLen)
              \cup {BalancedLine, UnbalancedLine, EscapedNestedLine,
                    QuotedCloserLine, OtherQuoteLine},
          UnboundedBudgets)

\* lines of options, and the line of ExampleParseArgs
OptionAlphabet == {32, 45, 61, 97}
ExampleParseArgsLine ==
    <<45, 108, 32, 45, 45, 110, 117, 109, 98, 101, 114, 61, 52, 50, 32, 45, 119, 104, 101, 114, 101, 61, 104, 101, 114, 101, 32, 45, 45, 32, 45, 110, 111, 116, 45, 97, 110, 45, 111, 112, 116, 105, 111, 110, 45, 32, 111, 110, 101, 32, 116, 119, 111, 32, 116, 104, 114, 101, 101, 32, 124, 112, 105, 112, 101, 114, 115, 32, 112, 105, 112, 105, 110, 103>>
ExampleOptions ==
    (<<108>> :> <<>>) @@ (<<110, 117, 109, 98, 101, 114>> :> <<52, 50>>) @@
    (<<119, 104, 101, 114, 101>> :> <<104, 101, 114, 101>>)
ExampleArguments ==
    <<<<45, 110, 111, 116, 45, 97, 110, 45, 111, 112, 116, 105, 111, 110, 45>>,
      <<111, 110, 101>>,
      <<116, 119, 111>>,
      <<116, 104, 114, 101, 101>>,
      <<124, 112, 105, 112, 101, 114, 115, 32, 112, 105, 112, 105, 110, 103>>>>
InitOptions ==
    Entry(Lines(OptionAlphabet, MaxOptionLen) \cup {ExampleParseArgsLine},
          UnboundedBudgets)

\* lines of options whose values are made of a digit, a sign and a letter
IntAlphabet == {32, 45, 61, 97, 49}
InitIntOptions ==
    Entry(Lines(IntAlphabet, MaxIntLen) \cup {ExampleParseArgsLine},
          UnboundedBudgets)

\* getTokens returns
Return(toks, remainder, e) ==
    /\ out' = [tokens |-> toks, rest |-> remainder, err |-> e]
    /\ pc' = "done"

\* getTokens calls scanner.NextToken()
CallNextToken ==
    /\ pc' = "scan"
    /\ start' = pos
    /\ SetLocals(NewLocals)

\* ForLoop that returns no remainder once the budget is used up
ForLoop_NoRest ==
    /\ pc = "for"
    /\ IF max <= 0 \/ i < max
       THEN IF max < 0
            THEN /\ pc' = "peek"
                 /\ UNCHANGED <<pos, out, start, scanVars>>
            ELSE /\ CallNextToken
                 /\ UNCHANGED <<pos, out>>
       ELSE /\ Return(tokens, <<>>, "nil")
            /\ pos' = Len(line)
            /\ UNCHANGED <<start, scanVars>>
    /\ UNCHANGED <<line, max, i, tokens, parseVars, callVars>>

\* getTokens: the head of the for loop and, when the budget is used up, the
\* ReadAll / TrimSpace after it
ForLoop ==
    /\ pc = "for"
    /\ IF max <= 0 \/ i < max
       THEN IF max < 0
            THEN /\ pc' = "peek"
                 /\ UNCHANGED <<pos, out, start, scanVars>>
            ELSE /\ CallNextToken
                 /\ UNCHANGED <<pos, out>>
       ELSE /\ Return(tokens, TrimSpace(From(line, pos + 1)), "nil")
            /\ pos' = Len(line)
            /\ UNCHANGED <<start, scanVars>>
    /\ UNCHANGED <<line, max, i, tokens, parseVars, callVars>>

\* PeekRune without the UnreadRune that puts the option character back
PeekRune_NoUnread ==
    /\ pc = "peek"
    /\ IF pos >= Len(line)
       THEN /\ Return(tokens, <<>>, "nil")
            /\ UNCHANGED <<pos, start, scanVars>>
       ELSE LET c == line[pos + 1]
            IN  IF c = OPTION_CHAR
                THEN /\ pc' = "scan"
                     /\ start' = pos + 1
                     /\ SetLocals(NewLocals)
                     /\ pos' = pos + 1
                     /\ UNCHANGED out
                ELSE IF ~IsSpace(c)
                THEN /\ Return(tokens, From(line, pos + 1), "nil")
                     /\ pos' = Len(line)
                     /\ UNCHANGED <<start, scanVars>>
                ELSE /\ pos' = pos + 1
                     /\ UNCHANGED <<pc, out, start, scanVars>>
    /\ UNCHANGED <<line, max, i, tokens, parseVars, callVars>>

\* getTokens, options mode: one ReadRune of the look-ahead loop
PeekRune ==
    /\ pc = "peek"
    /\ IF pos >= Len(line)
       THEN /\ Return(tokens, <<>>, "nil")
            /\ UNCHANGED <<pos, start, scanVars>>
       ELSE LET c == line[pos + 1]
            IN  IF c = OPTION_CHAR
                THEN /\ CallNextToken
                     /\ UNCHANGED <<pos, out>>
                ELSE IF ~IsSpace(c)
                THEN /\ Return(tokens, From(line, pos + 1), "nil")
                     /\ pos' = Len(line)
                     /\ UNCHANGED <<start, scanVars>>
                ELSE /\ pos' = pos + 1
                     /\ UNCHANGED <<pc, out, start, scanVars>>
    /\ UNCHANGED <<line, max, i, tokens, parseVars, callVars>>

\* NextToken: one iteration of its loop
ScanRune ==
    /\ pc = "scan"
    /\ LET r == Iterate(Locals, line, pos)
       IN  /\ SetLocals(r)
           /\ pc' = IF r.ret THEN "ret" ELSE "scan"
    /\ pos' = Advance(Locals, line, pos)
    /\ UNCHANGED <<line, max, i, tokens, out, start, parseVars, callVars>>

\* getTokens: NextToken has returned
TokenReturn ==
    /\ pc = "ret"
    /\ IF err # "nil"
       THEN /\ Return(tokens, <<>>, err)
            /\ UNCHANGED <<i, tokens>>
       ELSE /\ tokens' = Append(tokens, s)
            /\ i' = i + 1
            /\ pc' = "for"
            /\ UNCHANGED out
    /\ UNCHANGED <<line, pos, max, start, scanVars, parseVars, callVars>>

\* the option a token stands for: <<key, value>>
OptionOf(arg) ==
    LET a == TrimLeft(arg, DASH)
    IN  IF Contains(a, EQUALS) THEN SplitN2(a, EQUALS) ELSE <<a, <<>>>>

\* a map that keeps the value it already has for key
Store_KeepsFirst(map, key, value) == map @@ (key :> value)

\* map[key] = value
Store(map, key, value) == (key :> value) @@ map

\* ParseArgs: args := GetArgs(line) has returned
ParseArgs ==
    /\ pc = "done"
    /\ max = 0
    /\ args' = out.tokens
    /\ parsed' = [Options |-> <<>>, Arguments |-> <<>>]
    /\ pc' = IF Len(out.tokens) = 0 THEN "parsed" ELSE "parse"
    /\ UNCHANGED <<line, pos, max, i, tokens, out, start, scanVars, callVars>>

\* ParseLoop with the test for "--" made before the token is taken off args
ParseLoop_KeepsDashDash ==
    /\ pc = "parse"
    /\ IF Len(args) > 0 /\ HasPrefix(args[1], DASH)
       THEN IF args[1] = DASHDASH
            THEN /\ parsed' = [parsed EXCEPT !.Arguments = args]
                 /\ pc' = "parsed"
                 /\ UNCHANGED args
            ELSE /\ args' = Tail(args)
                 /\ parsed' = [parsed EXCEPT !.Options =
                            Store(@, OptionOf(args[1])[1], OptionOf(args[1])[2])]
                 /\ pc' = "parse"
       ELSE /\ parsed' = [parsed EXCEPT !.Arguments = args]
            /\ pc' = "parsed"
            /\ UNCHANGED args
    /\ UNCHANGED <<line, pos, max, i, tokens, out, start, scanVars, callVars>>

\* ParseArgs: one iteration of its loop; leaving the loop sets Arguments
ParseLoop ==
    /\ pc = "parse"
    /\ IF Len(args) > 0 /\ HasPrefix(args[1], DASH)
       THEN /\ args' = Tail(args)
            /\ IF args[1] = DASHDASH
               THEN /\ parsed' = [parsed EXCEPT !.Arguments = Tail(args)]
                    /\ pc' = "parsed"
               ELSE /\ parsed' = [parsed EXCEPT !.Options =
                            Store(@, OptionOf(args[1])[1], OptionOf(args[1])[2])]
                    /\ pc' = "parse"
       ELSE /\ parsed' = [parsed EXCEPT !.Arguments = args]
            /\ pc' = "parsed"
            /\ UNCHANGED args
    /\ UNCHANGED <<line, pos, max, i, tokens, out, start, scanVars, callVars>>

\* the option names and the defaults GetIntOption is called with
OptionNames == {<<97>>, <<110, 117, 109, 98, 101, 114>>}
Defaults == {0, 7}

\* Args.GetIntOption(name, def) on the result of ParseArgs
GetIntOption ==
    /\ pc = "parsed"
    /\ \E nm \in OptionNames, d \in Defaults :
           /\ name' = nm
           /\ def' = d
           /\ got' = IF nm \in DOMAIN parsed.Options
                     THEN Atoi(parsed.Options[nm]).n
                     ELSE d
    /\ pc' = "got"
    /\ UNCHANGED <<line, pos, max, i, tokens, out, start, scanVars, parseVars>>

Next ==
    \/ ForLoop
    \/ PeekRune
    \/ ScanRune
    \/ TokenReturn
    \/ ParseArgs
    \/ ParseLoop
    \/ GetIntOption

Spec == Init /\ [][Next]_vars

SpecWords == InitWords /\ [][Next]_vars

SpecQuoted == InitQuoted /\ [][Next]_vars

SpecBrackets == InitBrackets /\ [][Next]_vars

SpecOptions == InitOptions /\ [][Next]_vars

SpecIntOptions == InitIntOptions /\ [][Next]_vars

\* the program is sequential and runs each call to its end: a step that can
\* be taken is taken
InitFair == Entry(Lines(Alphabet, MaxFairLen), Budgets)
FairSpec == InitFair /\ [][Next]_vars /\ WF_vars(Next)

(***************************************************************************)
(* The same code as functions of the input, for statements that compare    *)
(* two calls on one line.                                                  *)
(***************************************************************************)
RECURSIVE Scan(_, _, _)
\* NextToken's loop run to its return, from locals l at reader offset p
Scan(l, str, p) ==
    LET r == Iterate(l, str, p)
        q == Advance(l, str, p)
    IN  IF r.ret
        THEN [s |-> r.s, delim |-> r.delim, err |-> r.err, pos |-> q]
        ELSE Scan(r, str, q)

\* scanner.NextToken() with p runes of str already read
NextToken(str, p) == Scan(NewLocals, str, p)

RECURSIVE TokensFrom(_, _)
\* getTokens(0): NextToken until it reports an error
TokensFrom(str, p) ==
    LET t == NextToken(str, p)
    IN  IF t.err # "nil" THEN <<>> ELSE <<t.s>> \o TokensFrom(str, t.pos)

\* GetArgs(line)
GetArgs(str) == TokensFrom(str, 0)

(***************************************************************************)
(* Vocabulary of the properties.                                           *)
(***************************************************************************)
QuoteRunes   == {QUOTE_CHARS[k] : k \in DOMAIN QUOTE_CHARS}
OpenRunes    == DOMAIN BRACKETS
CloseRunes   == {BRACKETS[c] : c \in DOMAIN BRACKETS}
BracketRunes == OpenRunes \cup CloseRunes
SymbolLeads  == {SYMBOL_CHARS[k] : k \in DOMAIN SYMBOL_CHARS} \ OpenRunes

\* str has no rune of the set
NoneOf(str, set) == \A k \in DOMAIN str : str[k] \notin set

\* no quotes, no brackets, no backslash
IsPlainLine(str) == NoneOf(str, QuoteRunes \cup BracketRunes \cup {ESCAPE_CHAR})

RECURSIVE Fields(_)
\* the maximal runs of non-space runes of str, in order
Fields(str) ==
    IF str = <<>> THEN <<>>
    ELSE IF IsSpace(Head(str)) THEN Fields(Tail(str))
    ELSE LET stop == {k \in DOMAIN str : IsSpace(str[k])}
             n == IF stop = {} THEN Len(str)
                  ELSE (CHOOSE k \in stop : \A m \in stop : k <= m) - 1
         IN  <<SubSeq(str, 1, n)>> \o Fields(From(str, n + 1))

\* GetArgs(line) has returned
GetArgsDone == pc = "done" /\ max = 0

(***************************************************************************)
(* C1.  As stated: for a line with no quotes, brackets or backslash,       *)
(* GetArgs(line) is the list of maximal non-space runs of the line.        *)
(***************************************************************************)
C1_AsStated ==
    (GetArgsDone /\ IsPlainLine(line)) => out.tokens = Fields(line)

\* no word of the line starts with | > < # and the line has no U+FFFD
NoSymbolWord(str) ==
    /\ \A k \in DOMAIN Fields(str) : Fields(str)[k][1] \notin SymbolLeads
    /\ NoneOf(str, {NO_QUOTE})

\* C1, amended: for a line with no quotes, brackets or backslash, no U+FFFD,
\* and no word that begins with one of | > < #, GetArgs(line) is the list of
\* maximal non-space runs of the line, in order, with no empty token.
C1_PlainSplit ==
    (GetArgsDone /\ IsPlainLine(line) /\ NoSymbolWord(line))
        => /\ out.tokens = Fields(line)
           /\ \A k \in DOMAIN out.tokens : out.tokens[k] # <<>>

\* two words separated by a run of spaces, a symbol rune inside a word
C1_Witness ==
    /\ GetArgsDone /\ IsPlainLine(line) /\ NoSymbolWord(line)
    /\ Len(out.tokens) = 2
    /\ \E k \in 1..(Len(line) - 1) : IsSpace(line[k]) /\ IsSpace(line[k + 1])
    /\ \E k \in DOMAIN line : line[k] \in SymbolLeads

(***************************************************************************)
(* Where a token starts, and the escapes of a span, read off the line.     *)
(***************************************************************************)
\* NextToken has returned to getTokens
Returned == pc = "ret"

\* indexes after the call's start that hold a non-space rune
NonSpaceAhead == {k \in (start + 1)..Len(line) : ~IsSpace(line[k])}

\* index of the first rune of the token: the first non-space rune
TokenStart == CHOOSE k \in NonSpaceAhead : \A m \in NonSpaceAhead : k <= m

\* number of backslashes that immediately precede index k
SlashesBefore(str, k) ==
    LET runs == {n \in 0..(k - 1) : \A m \in (k - n)..(k - 1) : str[m] = ESCAPE_CHAR}
    IN  CHOOSE n \in runs : \A m \in runs : n >= m

\* the rune at k follows an escaping backslash
IsEscaped(str, k) == SlashesBefore(str, k) % 2 = 1

\* the rune at k is a backslash that escapes what follows
IsEscaping(str, k) == str[k] = ESCAPE_CHAR /\ ~IsEscaped(str, k)

RECURSIVE Unescaped(_, _, _)
\* str[lo..hi] without its escaping backslashes
Unescaped(str, lo, hi) ==
    IF lo > hi THEN <<>>
    ELSE IF IsEscaping(str, lo) THEN Unescaped(str, lo + 1, hi)
    ELSE <<str[lo]>> \o Unescaped(str, lo + 1, hi)

(***************************************************************************)
(* C2.  A token whose first rune is a quote q is everything up to the next *)
(* unescaped q: spaces, brackets and the other quotes are kept, escaping   *)
(* backslashes are removed, and neither q is in the text.                  *)
(***************************************************************************)
\* indexes of the unescaped q after the opening q at index k
Closers(k) ==
    {m \in (k + 1)..Len(line) : line[m] = line[k] /\ ~IsEscaped(line, m)}

ClosingQuote(k) == CHOOSE m \in Closers(k) : \A n \in Closers(k) : m <= n

QuotedReturned ==
    /\ Returned
    /\ NonSpaceAhead # {}
    /\ line[TokenStart] \in QuoteRunes
    /\ Closers(TokenStart) # {}

C2_QuotedToken ==
    QuotedReturned =>
        /\ err = "nil"
        /\ s = Unescaped(line, TokenStart + 1, ClosingQuote(TokenStart) - 1)
        /\ delim = line[TokenStart]
        /\ pos = ClosingQuote(TokenStart)
        /\ (GetArgsDone /\ line = ExampleGetArgsLine)
               => out.tokens = ExampleGetArgsOutput

\* a quoted token holding a space, another quote and an escaped quote
C2_Witness ==
    /\ QuotedReturned
    /\ \E k \in DOMAIN s : IsSpace(s[k])
    /\ \E k \in DOMAIN s : s[k] \in QuoteRunes /\ s[k] # delim
    /\ \E k \in DOMAIN s : s[k] \in QuoteRunes /\ s[k] = delim

(***************************************************************************)
(* C3.  An unescaped backslash is dropped and sets the escape flag; the    *)
(* rune after it is appended as it is, whatever the state: the token goes  *)
(* on, the quote and the bracket stack stay as they were, exactly one rune *)
(* is read and the flag is cleared.                                        *)
(***************************************************************************)
ReadsRune == pc = "scan" /\ pos < Len(line)

C3_Escape ==
    [][/\ (ReadsRune /\ ~escape /\ line[pos + 1] = ESCAPE_CHAR) =>
              /\ escape' /\ buf' = buf /\ pc' = "scan" /\ pos' = pos + 1
              /\ quote' = quote /\ brackets' = brackets
       /\ (ReadsRune /\ escape) =>
              /\ ~escape' /\ buf' = Append(buf, line[pos + 1])
              /\ pc' = "scan" /\ pos' = pos + 1
              /\ quote' = quote /\ brackets' = brackets]_vars

\* the rune just read was escaped and is in the text
EscapedAdded(runes) ==
    /\ pc = "scan" /\ ~escape /\ pos >= start + 2
    /\ line[pos - 1] = ESCAPE_CHAR /\ IsEscaped(line, pos)
    /\ line[pos] \in runes
    /\ buf # <<>> /\ buf[Len(buf)] = line[pos]

\* an escaped closer inside a bracket group left the stack alone
C3_Witness ==
    /\ EscapedAdded(CloseRunes)
    /\ brackets # <<>>

(***************************************************************************)
(* C4.  A token whose first rune is an opening bracket runs to the closer  *)
(* that empties the stack, or to the end of the input, and is returned     *)
(* with a nil error.                                                       *)
(***************************************************************************)
BracketReturned ==
    /\ Returned
    /\ NonSpaceAhead # {}
    /\ line[TokenStart] \in OpenRunes

\* As stated: the text of the token is the span of the input, rune for rune.
C4_AsStated ==
    BracketReturned =>
        /\ err = "nil"
        /\ s = SubSeq(line, TokenStart, pos)
        /\ brackets = <<>> \/ pos = Len(line)

RECURSIVE Pending(_, _)
\* the closers a span with no quotes and no escapes still waits for
Pending(span, stack) ==
    IF span = <<>> THEN stack
    ELSE LET c == Head(span)
         IN  IF stack # <<>> /\ c = stack[Len(stack)]
             THEN Pending(Tail(span), SubSeq(stack, 1, Len(stack) - 1))
             ELSE IF c \in OpenRunes
             THEN Pending(Tail(span), Append(stack, BRACKETS[c]))
             ELSE Pending(Tail(span), stack)

\* the span has neither quotes nor backslashes
IsBracketText(span) == NoneOf(span, QuoteRunes \cup {ESCAPE_CHAR})

\* C4, amended: the text of the token is the span of the input from the
\* opening bracket to the closer that empties the stack (or to the end of the
\* input, with a nil error), with each escaping backslash removed; a span
\* with no backslash is returned rune for rune, and the three bracket kinds
\* nest in each other.
C4_BracketToken ==
    BracketReturned =>
        /\ err = "nil"
        /\ s = Unescaped(line, TokenStart, pos)
        /\ NoneOf(SubSeq(line, TokenStart, pos), {ESCAPE_CHAR})
               => s = SubSeq(line, TokenStart, pos)
        /\ brackets = <<>> \/ pos = Len(line)
        /\ brackets = <<>> => line[pos] \in CloseRunes /\ ~IsEscaped(line, pos)
        /\ IsBracketText(SubSeq(line, TokenStart, pos)) =>
               /\ Pending(s, <<>>) = brackets
               /\ \A n \in 1..(Len(s) - 1) : Pending(SubSeq(s, 1, n), <<>>) # <<>>
        /\ line = BalancedLine => s = BalancedLine /\ brackets = <<>>
        /\ line = UnbalancedLine => s = UnbalancedLine /\ brackets # <<>>

\* a closed group with a group nested in it and an escaping backslash
C4_Witness ==
    /\ BracketReturned
    /\ brackets = <<>>
    /\ \E k \in (TokenStart + 1)..pos : line[k] \in OpenRunes /\ ~IsEscaped(line, k)
    /\ \E k \in TokenStart..pos : IsEscaping(line, k)

(***************************************************************************)
(* C5.  ParseArgs(line) cuts T = GetArgs(line) once: the tokens before the *)
(* cut begin with '-', the cut is before the first token that does not, or *)
(* just after the first "--"; Arguments is the rest of T, in order, with   *)
(* whatever later tokens begin with '-'.                                   *)
(***************************************************************************)
Parsed == pc = "parsed"

BeginsWithDash(tok) == tok # <<>> /\ tok[1] = OPTION_CHAR

\* the places where taking options off the front of T has to stop
CutPoints(T) ==
    {k \in 0..Len(T) : \/ k = Len(T)
                       \/ ~BeginsWithDash(T[k + 1])
                       \/ k >= 1 /\ T[k] = DASHDASH}

Cut(T) == CHOOSE k \in CutPoints(T) : \A m \in CutPoints(T) : k <= m

C5_SingleCut ==
    Parsed =>
        /\ out.tokens = GetArgs(line)
        /\ parsed.Arguments = SubSeq(out.tokens, Cut(out.tokens) + 1, Len(out.tokens))
        /\ line = ExampleParseArgsLine =>
               /\ parsed.Options = ExampleOptions
               /\ parsed.Arguments = ExampleArguments

\* an option, then "--", then an argument that begins with '-'
C5_Witness ==
    /\ Parsed
    /\ Cut(out.tokens) >= 2
    /\ out.tokens[Cut(out.tokens)] = DASHDASH
    /\ parsed.Arguments # <<>>
    /\ BeginsWithDash(parsed.Arguments[1])

(***************************************************************************)
(* C6.  A token whose first rune is one of | > < # is that rune and all    *)
(* the rest of the input, as it is, with delimiter 0; the reader is then   *)
(* empty, and a NextToken that starts on an empty reader reports           *)
(* end-of-input.                                                           *)
(***************************************************************************)
SymbolReturned ==
    /\ Returned
    /\ NonSpaceAhead # {}
    /\ line[TokenStart] \in SymbolLeads

C6_SymbolRest ==
    /\ SymbolReturned =>
           /\ s = From(line, TokenStart)
           /\ delim = 0
           /\ err = "nil"
           /\ pos = Len(line)
    /\ (Returned /\ start = Len(line)) => (err = "EOF" /\ s = <<>>)
    /\ (pc \in {"scan", "ret"} /\ tokens # <<>> /\ start > 0
            /\ \E k \in 1..start : /\ line[k] \in SymbolLeads
                                   /\ tokens[Len(tokens)] = From(line, k)
                                   /\ \A m \in 1..(k - 1) : IsSpace(line[m]))
           => start = Len(line)

\* the call after a symbol token that holds a quote, a backslash or a bracket
\* and a space has reported end-of-input
C6_Witness ==
    /\ Returned
    /\ err = "EOF"
    /\ tokens # <<>>
    /\ tokens[1][1] \in SymbolLeads
    /\ \E k \in DOMAIN tokens[1] : IsSpace(tokens[1][k])
    /\ \E k \in DOMAIN tokens[1] :
           tokens[1][k] \in QuoteRunes \cup OpenRunes \cup {ESCAPE_CHAR}

(***************************************************************************)
(* Vocabulary of the driver properties.                                    *)
(***************************************************************************)
\* getTokens(max) has returned
Done == pc = "done"

RECURSIVE PosAfter(_, _, _)
\* reader offset after n calls of NextToken that start at offset p
PosAfter(str, p, n) ==
    IF n = 0 THEN p ELSE PosAfter(str, NextToken(str, p).pos, n - 1)

\* r is t without the white space at its two ends
IsTrimOf(r, t) ==
    \/ r = <<>> /\ \A k \in DOMAIN t : IsSpace(t[k])
    \/ /\ r # <<>>
       /\ ~IsSpace(r[1])
       /\ ~IsSpace(r[Len(r)])
       /\ \E lo \in DOMAIN t :
              /\ r = SubSeq(t, lo, lo + Len(r) - 1)
              /\ \A k \in DOMAIN t : (k < lo \/ k >= lo + Len(r)) => IsSpace(t[k])

(***************************************************************************)
(* C7.  For n > 0 and a line of more than n tokens, GetArgsN(line, n)      *)
(* returns the first n tokens of GetArgs(line) and a non-empty remainder:  *)
(* the input after what the n-th NextToken consumed, without the white     *)
(* space at its two ends.                                                  *)
(***************************************************************************)
MoreThanBudget == Done /\ max > 0 /\ Len(GetArgs(line)) > max

C7_FirstN ==
    MoreThanBudget =>
        /\ Len(out.tokens) = max
        /\ out.tokens = SubSeq(GetArgs(line), 1, max)
        /\ out.rest # <<>>
        /\ IsTrimOf(out.rest, From(line, PosAfter(line, 0, max) + 1))

\* white space was cut from both ends of the remainder
C7_Witness ==
    /\ MoreThanBudget
    /\ IsSpace(line[PosAfter(line, 0, max) + 1])
    /\ IsSpace(line[Len(line)])

(***************************************************************************)
(* C8.  For every n <= 0, GetArgsN(line, n) returns the tokens of          *)
(* GetArgs(line) and an empty remainder.                                   *)
(***************************************************************************)
C8_NonPositive ==
    (Done /\ max <= 0) => (out.tokens = GetArgs(line) /\ out.rest = <<>>)

(***************************************************************************)
(* C9.  GetOptions that stops at a rune that is neither white space nor    *)
(* '-' returns the input from that rune on, without the white space at its *)
(* two ends.                                                               *)
(***************************************************************************)
\* index of the rune the options loop stopped at: the first rune after the
\* consumed input of GetArgs(line)'s first Len(out.tokens) tokens that is not
\* white space
StopSet ==
    {k \in (PosAfter(line, 0, Len(out.tokens)) + 1)..Len(line) : ~IsSpace(line[k])}

StopAt == CHOOSE k \in StopSet : \A m \in StopSet : k <= m

OptionsStopped ==
    Done /\ max = -1 /\ StopSet # {} /\ line[StopAt] # OPTION_CHAR

C9_TrimmedRest ==
    OptionsStopped =>
        /\ IsTrimOf(out.rest, From(line, StopAt))
        /\ ~IsSpace(out.rest[1])
        /\ ~IsSpace(out.rest[Len(out.rest)])

(***************************************************************************)
(* C10.  GetOptionTokens returns the longest leading run of tokens that    *)
(* start at a '-' of the input: each begins with '-', the remainder is     *)
(* empty or begins with a rune that is neither white space nor '-', it is  *)
(* the untokenized end of the input, and end-of-input while skipping white *)
(* space gives the tokens so far, an empty remainder and a nil error.      *)
(***************************************************************************)
OptionsDone == Done /\ max < 0

C10_OptionRun ==
    OptionsDone =>
        LET G == GetArgs(line)
            n == Len(out.tokens)
            cut == Len(line) - Len(out.rest)
        IN  /\ out.err = "nil"
            /\ n <= Len(G)
            /\ out.tokens = SubSeq(G, 1, n)
            /\ \A k \in 1..n : BeginsWithDash(out.tokens[k])
            /\ out.rest # <<>> =>
                   /\ ~IsSpace(out.rest[1])
                   /\ out.rest[1] # OPTION_CHAR
            /\ out.rest = From(line, cut + 1)
            /\ GetArgs(SubSeq(line, 1, cut)) = out.tokens
            /\ out.rest = <<>> => out.tokens = G

\* an option token, then a remainder that holds a '-' and white space
C10_Witness ==
    /\ OptionsDone
    /\ out.tokens # <<>>
    /\ out.rest # <<>>
    /\ \E k \in DOMAIN out.rest : out.rest[k] = OPTION_CHAR
    /\ \E k \in DOMAIN out.rest : IsSpace(out.rest[k])

(***************************************************************************)
(* C11.  GetIntOption and its default.                                     *)
(***************************************************************************)
Got == pc = "got"

\* the value of the option GetIntOption was asked for
Present == name \in DOMAIN parsed.Options
Value == parsed.Options[name]

\* a decimal integer: an optional sign followed by one or more digits
IsInteger(str) ==
    \E k \in 0..1 :
        /\ Len(str) > k
        /\ k = 1 => str[1] \in SIGNS
        /\ \A m \in (k + 1)..Len(str) : str[m] \in DIGITS

\* C11: GetIntOption(name, def) returns def when the option is absent and
\* also when it is present but its value is not a valid integer (the empty
\* value of a boolean flag included); it returns the parsed integer only
\* when the value parses.
C11_IntOrDefault ==
    Got => got = IF Present /\ IsInteger(Value) THEN Atoi(Value).n ELSE def

(***************************************************************************)
(* C12.  The unbounded driver and end-of-input.                            *)
(***************************************************************************)
\* C12: Scanner.GetTokens treats end-of-input as its stop signal and not as
\* an error: for any finite input it returns every token in order with a
\* nil error, and for an empty or all-whitespace input the empty sequence
\* with a nil error.
C12_NilAtEnd ==
    GetArgsDone =>
        /\ out.tokens = GetArgs(line)
        /\ out.err = "nil"
        /\ (\A k \in DOMAIN line : IsSpace(line[k])) => out.tokens = <<>>

(***************************************************************************)
(* C13.  How ParseArgs splits an option token into key and value.          *)
(***************************************************************************)
\* the tokens ParseArgs stores as options: those before the cut, without "--"
OptionIdx(T) == {k \in 1..Cut(T) : T[k] # DASHDASH}

\* the number of '-' a token begins with
DashCount(tok) ==
    CHOOSE n \in 0..Len(tok) :
        /\ \A k \in 1..n : tok[k] = OPTION_CHAR
        /\ n < Len(tok) => tok[n + 1] # OPTION_CHAR

Body(tok) == SubSeq(tok, DashCount(tok) + 1, Len(tok))

EqualsIn(str) == {k \in DOMAIN str : str[k] = 61}

FirstEquals(str) == CHOOSE k \in EqualsIn(str) : \A m \in EqualsIn(str) : k <= m

KeyOf(tok) ==
    IF EqualsIn(Body(tok)) = {} THEN Body(tok)
    ELSE SubSeq(Body(tok), 1, FirstEquals(Body(tok)) - 1)

ValueOf(tok) ==
    IF EqualsIn(Body(tok)) = {} THEN <<>>
    ELSE SubSeq(Body(tok), FirstEquals(Body(tok)) + 1, Len(Body(tok)))

\* C13: for each option token other than the lone "--", all leading '-'
\* are stripped and the remainder is split at its first '=' into key and
\* value (the value may itself contain '='); with no '=' the key maps to the
\* empty string; when a key occurs twice its last occurrence wins.
C13_KeyValue ==
    Parsed =>
        LET T == out.tokens
        IN  /\ DOMAIN parsed.Options = {KeyOf(T[k]) : k \in OptionIdx(T)}
            /\ \A k \in OptionIdx(T) :
                   (\A m \in OptionIdx(T) : m > k => KeyOf(T[m]) # KeyOf(T[k]))
                       => parsed.Options[KeyOf(T[k])] = ValueOf(T[k])

\* a key given twice, first with a value that holds '=' and then with none
C13_Witness ==
    /\ Parsed
    /\ \E k, m \in OptionIdx(out.tokens) :
           /\ k < m
           /\ KeyOf(out.tokens[k]) = KeyOf(out.tokens[m])
           /\ KeyOf(out.tokens[k]) # <<>>
           /\ EqualsIn(ValueOf(out.tokens[k])) # {}
           /\ ValueOf(out.tokens[m]) = <<>>
           /\ parsed.Options[KeyOf(out.tokens[k])] = <<>>

(***************************************************************************)
(* C14.  The delimiter of a token that end-of-input ends.                  *)
(***************************************************************************)
\* NextToken is about to read from an exhausted reader with text in buf
AtEndWithText == pc = "scan" /\ pos >= Len(line) /\ buf # <<>>

\* C14: whenever NextToken returns a token because the input was exhausted
\* (a bare word at end of input, an unterminated quote, or an unterminated
\* bracket group whose stack is not empty), the delimiter it returns is 0 and
\* the error is nil.
C14_ZeroAtEnd ==
    [][AtEndWithText =>
           /\ pc' = "ret"
           /\ s' = buf
           /\ err' = "nil"
           /\ delim' = 0]_vars

(***************************************************************************)
(* C15.  The delimiter of a token that a rune of the input ends.           *)
(***************************************************************************)
\* NextToken reads a rune after the first of its token and returns
EndedByRune == ReadsRune /\ ~first /\ pc' = "ret"

\* C15: for a token not ended by end-of-input, the delimiter is the white
\* space that ended a bare word, the closing quote that ended a top-level
\* quoted token, and, for a bracket group closed by its matching closer, the
\* opening bracket recorded when the group began (not the closer, not 0); in
\* the first two cases the delimiter is consumed and is not part of the text.
C15_Delimiter ==
    [][EndedByRune =>
           LET c == line[pos + 1]
           IN  /\ (brackets = <<>> /\ quote = NO_QUOTE /\ IsSpace(c)) =>
                      /\ delim' = c
                      /\ s' = buf
                      /\ pos' = pos + 1
               /\ (brackets = <<>> /\ quote # NO_QUOTE) =>
                      /\ c = quote
                      /\ c \in QuoteRunes
                      /\ delim' = c
                      /\ s' = buf
                      /\ pos' = pos + 1
               /\ brackets # <<>> =>
                      /\ brackets = <<c>>
                      /\ delim' = line[TokenStart]
                      /\ delim' \in OpenRunes
                      /\ BRACKETS[delim'] = c
                      /\ s' = Append(buf, c)
                      /\ s'[1] = delim']_vars

\* a group that holds another group is returned with its opening bracket
C15_Witness ==
    /\ Returned
    /\ err = "nil"
    /\ Len(s) >= 4
    /\ delim \in OpenRunes
    /\ s[1] = delim
    /\ s[2] \in OpenRunes
    /\ s[Len(s)] = BRACKETS[delim]
    /\ brackets = <<>>

(***************************************************************************)
(* C16.  A quote character inside a bare word.                             *)
(***************************************************************************)
\* NextToken, inside a bare word, reads an unescaped quote character
QuoteInBareWord ==
    /\ ReadsRune
    /\ ~first
    /\ ~escape
    /\ brackets = <<>>
    /\ quote = NO_QUOTE
    /\ line[pos + 1] \in QuoteRunes

\* C16: in bare-word mode an unescaped quote character that is not the first
\* character of the token is not appended; it switches the scanner into
\* quoted mode for the rest of the same token, so that ab"c d" is one token.
C16_AsStated ==
    [][/\ QuoteInBareWord =>
              /\ buf' = buf
              /\ quote' = line[pos + 1]
              /\ pc' = "scan"
       /\ (GetArgsDone /\ line = MidWordQuoteLine) => Len(out.tokens) = 1]_vars

\* C16, amended: the quote character is appended as it is and the scanner
\* stays in bare-word mode, so the next unescaped white space ends the
\* token: ab"c d" gives the two tokens ab"c and d".
C16_QuoteIsText ==
    [][/\ QuoteInBareWord =>
              /\ buf' = Append(buf, line[pos + 1])
              /\ quote' = NO_QUOTE
              /\ brackets' = <<>>
              /\ pc' = "scan"
       /\ (ReadsRune /\ ~first /\ ~escape /\ brackets = <<>>
               /\ quote = NO_QUOTE /\ IsSpace(line[pos + 1])) =>
              /\ pc' = "ret"
              /\ s' = buf
       /\ (GetArgsDone /\ line = MidWordQuoteLine) =>
              out.tokens = <<<<97, 98, 34, 99>>, <<100, 34>>>>]_vars

\* ab"c d" has been split, and the first token kept its quote
C16_Witness ==
    /\ GetArgsDone
    /\ line = MidWordQuoteLine
    /\ Len(out.tokens) = 2
    /\ out.tokens[1][3] \in QuoteRunes

(***************************************************************************)
(* C17.  Quotes inside a bracket group.                                    *)
(***************************************************************************)
\* NextToken, inside a bracket group, reads a rune that is not escaped and
\* does not escape
InGroup ==
    /\ ReadsRune
    /\ brackets # <<>>
    /\ ~escape
    /\ line[pos + 1] # ESCAPE_CHAR

\* C17: inside a bracket group an unescaped quote character opens a nested
\* quoted span that lasts until the next unescaped occurrence of the same
\* quote character; while it is open no bracket character pushes or pops
\* and no closer ends the token; the closing quote only clears the active
\* quote; both quote characters are kept in the text, so that {"a}"} is one
\* token equal to itself.
C17_NestedQuote ==
    [][/\ (InGroup /\ quote = NO_QUOTE /\ line[pos + 1] \in QuoteRunes) =>
              /\ quote' = line[pos + 1]
              /\ buf' = Append(buf, line[pos + 1])
              /\ brackets' = brackets
              /\ pc' = "scan"
       /\ (InGroup /\ quote # NO_QUOTE) =>
              /\ quote' = IF line[pos + 1] = quote THEN NO_QUOTE ELSE quote
              /\ buf' = Append(buf, line[pos + 1])
              /\ brackets' = brackets
              /\ pc' = "scan"
       /\ (ReadsRune /\ brackets # <<>> /\ quote # NO_QUOTE
               /\ (escape \/ line[pos + 1] = ESCAPE_CHAR)) =>
              /\ quote' = quote
              /\ brackets' = brackets
              /\ pc' = "scan"
       /\ (GetArgsDone /\ line \in {QuotedCloserLine, OtherQuoteLine}) =>
              out.tokens = <<line>>]_vars

\* a group returned whole that holds its own closer between two quotes
C17_Witness ==
    /\ Returned
    /\ err = "nil"
    /\ s = line
    /\ NoneOf(line, {ESCAPE_CHAR})
    /\ line[1] \in OpenRunes
    /\ \E k, m \in 2..(Len(line) - 1) :
           /\ k < m
           /\ line[k] \in QuoteRunes
           /\ line[m] = line[k]
           /\ \A j \in (k + 1)..(m - 1) : line[j] # line[k]
           /\ \E j \in (k + 1)..(m - 1) : line[j] = BRACKETS[line[1]]

(***************************************************************************)
(* C18.  The stack of pending closers.                                     *)
(***************************************************************************)
Scanning == pc = "scan"

Top == brackets[Len(brackets)]

\* C18: the stack becomes non-empty only when the first character of a
\* token is an unescaped opening bracket, so it is empty throughout every
\* other token (an opening bracket inside a word is plain text, and white
\* space still ends that word); once non-empty it keeps depth >= 1 until the
\* step that pops the last closer, where the token is returned at once; only
\* the closer on top of the stack pops it.
C18_StackDiscipline ==
    [][Scanning =>
           /\ brackets # <<>> =>
                  /\ NonSpaceAhead # {}
                  /\ line[TokenStart] \in OpenRunes
                  /\ brackets[1] = BRACKETS[line[TokenStart]]
           /\ (brackets = <<>> /\ brackets' # <<>>) =>
                  /\ ReadsRune
                  /\ first
                  /\ ~escape
                  /\ line[pos + 1] \in OpenRunes
                  /\ brackets' = <<BRACKETS[line[pos + 1]]>>
           /\ (ReadsRune /\ ~first /\ ~escape /\ brackets = <<>>
                   /\ line[pos + 1] \in OpenRunes) =>
                  /\ brackets' = <<>>
                  /\ buf' = Append(buf, line[pos + 1])
                  /\ pc' = "scan"
           /\ (ReadsRune /\ ~first /\ ~escape /\ brackets = <<>>
                   /\ quote = NO_QUOTE /\ IsSpace(line[pos + 1])) =>
                  /\ pc' = "ret"
                  /\ s' = buf
           /\ (brackets # <<>> /\ brackets' = <<>>) =>
                  /\ pc' = "ret"
                  /\ err' = "nil"
                  /\ s' = Append(buf, line[pos + 1])
           /\ (brackets # <<>> /\ ReadsRune /\ pc' = "ret") => brackets' = <<>>
           /\ (brackets # <<>> /\ Len(brackets') < Len(brackets)) =>
                  /\ ReadsRune
                  /\ ~escape
                  /\ quote = NO_QUOTE
                  /\ line[pos + 1] = Top
                  /\ brackets' = SubSeq(brackets, 1, Len(brackets) - 1)]_vars

\* inside a group of depth two, a closer that is not the one on top of the
\* stack has just been added as text
C18_Witness ==
    /\ Scanning
    /\ Len(brackets) >= 2
    /\ quote = NO_QUOTE
    /\ NoneOf(line, QuoteRunes \cup {ESCAPE_CHAR})
    /\ buf[Len(buf)] \in CloseRunes
    /\ buf[Len(buf)] # Top
    /\ Len(buf) = 3

(***************************************************************************)
(* C19.  Progress and termination.                                         *)
(***************************************************************************)
\* the calls of NextToken that getTokens has made so far
Calls ==
    Len(tokens)
        + (IF pc \in {"scan", "ret"}
              \/ (pc \notin {"for", "peek"} /\ out.err = "EOF")
           THEN 1 ELSE 0)

\* C19: on a finite input every NextToken call returns; a call that returns
\* a token with a nil error has consumed at least one character; a call that
\* finds the input exhausted with an empty buffer returns end-of-input; so
\* GetTokens, GetTokensN and GetOptionTokens terminate, after at most one
\* NextToken call per input character plus one.
C19_Progress ==
    /\ [](Returned /\ err = "nil" => pos > start)
    /\ []((Returned /\ err # "nil") => (err = "EOF" /\ s = <<>> /\ pos = Len(line)))
    /\ [][(Scanning /\ pos >= Len(line) /\ buf = <<>>) =>
               (pc' = "ret" /\ err' = "EOF" /\ s' = <<>>)]_vars
    /\ [](Calls <= Len(line) + 1)
    /\ (Scanning ~> Returned)
    /\ <>Done

\* a line of two tokens has been read to its end: the last call found the
\* reader empty
C19_Witness ==
    /\ Done
    /\ max = 0
    /\ out.err = "EOF"
    /\ Len(out.tokens) = 2
    /\ Calls = 3
    /\ Calls <= Len(line)

(***************************************************************************)
(* C20.  Taking the first n tokens and going on from the remainder.        *)
(***************************************************************************)
\* GetArgsN(line, n) with n > 0 has returned
FirstNDone == Done /\ max > 0

\* the white space at the ends of the line is not part of a token
EndsOutsideTokens(str) == GetArgs(TrimSpace(str)) = GetArgs(str)

\* C20: for every line and every n > 0, if (tokens, rest) = GetArgsN(line, n)
\* then tokens followed by GetArgs(rest) equals GetArgs(line).
C20_AsStated ==
    FirstNDone => out.tokens \o GetArgs(out.rest) = GetArgs(line)

\* C20, amended: the same, for every line whose trailing white space is not
\* part of a token (escaped, quoted, inside a bracket group or after a
\* symbol), that is, whose tokens stay the same when the line is trimmed.
C20_SplitResume ==
    (FirstNDone /\ EndsOutsideTokens(line)) =>
        out.tokens \o GetArgs(out.rest) = GetArgs(line)

\* one token taken, more tokens in the remainder, and white space trimmed
\* off the end of the remainder
C20_Witness ==
    /\ FirstNDone
    /\ EndsOutsideTokens(line)
    /\ Len(out.tokens) = max
    /\ GetArgs(out.rest) # <<>>
    /\ IsSpace(line[Len(line)])
    /\ Len(GetArgs(line)) > max

====
